---- MODULE Spec2Model ----
(***************************************************************************)
(* Model of the Local AI Service: the resource lifecycle                   *)
(* (src/local-ai-service/services/model_manager.py, ModelManager), the     *)
(* telemetry history and its sampler thread (performance_monitor.py,       *)
(* PerformanceMonitor) and the health aggregation (health_checker.py,      *)
(* HealthChecker).  Each of the three has its own specification: Spec and  *)
(* ScenarioSpec, TelemetrySpec, HealthSpec and FunctionSpec.               *)
(*                                                                         *)
(* Scheduling.  Every ModelManager operation is an `async def` coroutine   *)
(* that main.py awaits from an async FastAPI endpoint, on the single       *)
(* asyncio event loop of the process.  None of download_model, load_model, *)
(* unload_model and cleanup awaits anything but another of these           *)
(* coroutines, so a call never suspends: once the event loop has begun a   *)
(* call it runs it to its return before it begins another one.  The model  *)
(* keeps the calls' positions (pc) at the granularity of the backend       *)
(* steps that can raise, and the variable `loop` names the call that the   *)
(* event loop is executing (0 when it is free).                            *)
(***************************************************************************)
EXTENDS Integers, FiniteSets, Sequences, TLC

\* Largest memory footprint reading (GB, rounded up) the backend reports.
MaxMem == 1

\* The request slots: two requests can be in flight at once, which is what
\* the properties about concurrent calls are about.
Calls == {1, 2}

\* The catalog the service is configured with by default: the keys of
\* default_configs, in their order.
ModelOrder ==
    <<"codebert-small", "distilgpt2-code", "tinyllama", "starcoderbase">>

VARIABLE
    catalog         \* list(self.models.keys()), in configuration order; it is
                    \* set by _load_model_configs and never changes afterwards

ModelIds == {catalog[i] : i \in 1..Len(catalog)}
\* An id that is not in the catalog.
UnknownId == "no-such-model"
\* The resources the requests address: one without quantization and one
\* with.  The other entries of the catalog are listed, counted and visited
\* by cleanup, and are never downloaded.
Requested == {"codebert-small", "tinyllama"}
\* The ids the requests are made with.
Ids == (ModelIds \cap Requested) \cup {UnknownId}

\* config["quantization"] of the catalog entries.
Quantization(m) ==
    IF m = "codebert-small" THEN "None"
    ELSE IF m = "tinyllama" THEN "4bit"
    ELSE "8bit"

DeviceArgs == {"auto", "cpu"}

VARIABLES
    path_exists,    \* [ModelIds -> BOOLEAN]: (models_dir / model_id).exists()
    is_loaded,      \* ModelInfo.is_loaded
    model,          \* ModelInfo.model: "None", "obj" (a backend handle) or
                    \* "absent" (the attribute has been deleted)
    tokenizer,      \* ModelInfo.tokenizer: "None", "obj" or "absent"
    memory_usage,   \* ModelInfo.memory_usage: 0 or a positive reading
    live,           \* number of backend handles materialized for the id and
                    \* not yet released (dropped by del or by reassignment)
    calls,          \* [Calls -> call record]: the requests and their position
    loop            \* the call the event loop is executing, 0 when free

\* PerformanceMonitor (services/performance_monitor.py).  Its methods are
\* plain functions called by the thread that owns the monitor (the client);
\* each start_monitoring creates a sampler thread that runs _monitoring_loop
\* and interleaves with the client and with the other sampler threads at
\* every statement.
VARIABLES
    monitoring,       \* self.monitoring
    monitor_thread,   \* self.monitor_thread: a sampler thread, 0 for None
    metrics_history,  \* self.metrics_history: the samples, oldest first; a
                      \* sample is represented by its timestamp
    threads,          \* [Threads -> sampler thread record]
    client,           \* the client thread: its current or last call
    now               \* the clock: the number of samples taken so far

\* HealthChecker (services/health_checker.py).
VARIABLES
    dependencies,     \* self.model_manager and self.performance_monitor of
                      \* the checker: whether each is an object (not None)
    call_args,        \* the function applied on its own and its arguments
    call_result,      \* [applied, value]: whether it has been applied and
                      \* what it returned
    checks,           \* [Checks -> check_health call record]
    health_check_history, \* self.health_check_history, oldest first
    executing,        \* the check_health call the event loop is executing,
                      \* 0 when it executes none
    checks_begun      \* the number of check_health calls begun so far

res_vars == <<path_exists, is_loaded, model, tokenizer, memory_usage>>
manager_vars == <<res_vars, live, calls, loop>>
telemetry_vars == <<monitoring, monitor_thread, metrics_history, threads,
                    client, now>>
health_vars == <<dependencies, call_args, call_result, checks,
                 health_check_history, executing, checks_begun>>
\* What no ModelManager operation writes.
non_manager_vars == <<catalog, telemetry_vars, health_vars>>
\* What no PerformanceMonitor operation writes.
non_telemetry_vars == <<catalog, manager_vars, health_vars>>
\* What no HealthChecker operation writes.
non_health_vars == <<catalog, manager_vars, telemetry_vars>>
vars == <<manager_vars, catalog, telemetry_vars, health_vars>>

\* A free request slot.
IdleCall ==
    [op |-> "none", id |-> UnknownId, force |-> FALSE, device |-> "auto",
     pc |-> "idle", result |-> "none",
     dev |-> "none",       \* load_model's local `device` once resolved
     uid |-> UnknownId,    \* the id of the unload_model frame being executed
     ucaller |-> "none",   \* who called unload_model: "top", "load", "cleanup"
     idx |-> 0,            \* cleanup's position in list(self.models.keys())
     fetched |-> FALSE,    \* this call has invoked snapshot_download
     cause |-> "none",     \* what the call logged as the reason of its failure:
                           \* "not found", "not downloaded" or "exception";
                           \* for cleanup, what an unload it called logged
     start |-> "none",     \* list_models status of the id when the call began
     conc |-> 0]           \* the same-id download in flight when this download
                           \* was submitted on a not_downloaded resource

\* ModelInfo.__init__ (is_loaded False, model None, tokenizer None,
\* memory_usage 0); the artifacts of any of the requested resources may
\* already be on disk.  ModelInfo.device and ModelInfo.load_time are written by
\* load_model and read by nothing, and are not part of the state.
ManagerInit ==
    /\ path_exists \in {f \in [ModelIds -> BOOLEAN] :
                           \A m \in ModelIds \ Requested : ~f[m]}
    /\ is_loaded = [m \in ModelIds |-> FALSE]
    /\ model = [m \in ModelIds |-> "None"]
    /\ tokenizer = [m \in ModelIds |-> "None"]
    /\ memory_usage = [m \in ModelIds |-> 0]
    /\ live = [m \in ModelIds |-> 0]
    /\ calls = [c \in Calls |-> IdleCall]
    /\ loop = 0

\* The capacity of the telemetry history, self.max_history_size (1000 in the
\* source), scaled down.
HistoryCapacity == 2
max_history_size == HistoryCapacity

\* The last reading of the clock: the sampler threads take no sample after it.
MaxClock == 3

\* The sampler thread slots.
Threads == {1, 2}

\* The intervals start_monitoring is called with: a short one and the
\* default one (seconds).
Intervals == {1, 5}
\* psutil.cpu_percent(interval=1): the seconds one sample takes.
sample_time == 1
\* self.monitor_thread.join(timeout=5)
join_timeout == 5

\* A sample (PerformanceMetrics) is its timestamp and its readings, which
\* cpu_percent stands for.  NoMetrics: the local `metrics` is not bound.
NoMetrics == [timestamp |-> 0, cpu_percent |-> 0]

\* A thread slot that holds no thread.
NoThread ==
    [pc |-> "none", interval |-> 0,
     tmp |-> <<>>,         \* the slice computed by the trimming statement
     metrics |-> NoMetrics, \* the local `metrics` of _monitoring_loop
     stopped |-> FALSE]    \* a stop_monitoring() or cleanup() call made while
                           \* this thread was alive has returned

\* The client before its first call.
IdleClient == [op |-> "none", pc |-> "ready", result |-> "none"]

\* PerformanceMonitor.__init__
MonitorInit ==
    /\ monitoring = FALSE
    /\ monitor_thread = 0
    /\ metrics_history = <<>>
    /\ threads = [t \in Threads |-> NoThread]
    /\ client = IdleClient
    /\ now = 0

\* No function of the health checker is being applied on its own.
NoCall == [f |-> "none", a |-> <<>>]

\* HealthChecker.__init__
\* The function has not been applied.
NoResult == [applied |-> FALSE, value |-> "none"]
\* The function has returned v.
Result(v) == [applied |-> TRUE, value |-> v]

\* The check_health calls that can be in flight together.
Checks == {1, 2}

\* The capacity of the health history, self.max_history_size of the
\* HealthChecker (100 in the source), scaled down.
HealthHistoryCapacity == 1
health_max_history_size == HealthHistoryCapacity

\* The number of check_health calls a behaviour begins.
MaxChecks == 2

\* A sub-report that has not been computed.
NoReport == [status |-> "none", issues |-> <<>>]

\* A check_health call that has not begun.
IdleCheck ==
    [pc |-> "idle",
     system_health |-> NoReport, model_health |-> NoReport,
     performance_health |-> NoReport, service_health |-> NoReport,
     overall_status |-> "none",
     ordinal |-> 0,        \* the call is the ordinal-th one begun
     failed |-> FALSE,     \* a step of this call has raised an exception
     result |-> [kind |-> "none", status |-> "none"]]

\* HealthChecker.__init__(model_manager, performance_monitor); main.py
\* passes both objects.
CheckerInit ==
    /\ dependencies = [model_manager |-> TRUE, performance_monitor |-> TRUE]
    /\ checks = [k \in Checks |-> IdleCheck]
    /\ health_check_history = <<>>
    /\ executing = 0
    /\ checks_begun = 0

\* HealthChecker.__init__ with either argument left at its default None, as
\* the module-level instance HealthChecker() is constructed.
CheckerWith(d) ==
    /\ dependencies = d
    /\ checks = [k \in Checks |-> IdleCheck]
    /\ health_check_history = <<>>
    /\ executing = 0
    /\ checks_begun = 0

HealthInit ==
    /\ call_args = NoCall
    /\ call_result = NoResult
    /\ CheckerInit

\* The service as main.py constructs it, with the default catalog.
Init ==
    /\ catalog = ModelOrder
    /\ ManagerInit
    /\ MonitorInit
    /\ HealthInit

----------------------------------------------------------------------------
(* Read-only operations *)

status_by_path(m) ==
    IF path_exists[m] THEN "downloaded" ELSE "not_downloaded"

\* The "status" entry list_models computes for one catalog entry.
Status(m) ==
    IF is_loaded[m] THEN "loaded"
    ELSE IF path_exists[m] THEN "downloaded" ELSE "not_downloaded"

\* list_models(): one entry per catalog entry, in catalog order.
list_models ==
    [i \in 1..Len(catalog) |->
        [id |-> catalog[i],
         status |-> Status(catalog[i]),
         is_loaded |-> is_loaded[catalog[i]]]]

get_model_unchecked(model_id) ==
    IF model_id \in ModelIds THEN "ModelInfo" ELSE "None"

\* get_model(model_id): the ModelInfo when the id is known and is_loaded,
\* None otherwise.
get_model(model_id) ==
    IF model_id \in ModelIds /\ is_loaded[model_id] THEN "ModelInfo" ELSE "None"

\* The status list_models reports for an id of the catalog; "none" for others.
StatusOf(model_id) ==
    IF model_id \in ModelIds THEN Status(model_id) ELSE "none"

----------------------------------------------------------------------------
(* Requests *)

\* The event loop has begun call c and c has not returned.
Running(c) == calls[c].pc \notin {"idle", "pending", "done"}

coroutines_interleave(c) == TRUE

\* The event loop begins a call only when it is executing no other call:
\* the coroutines have no suspension point.
CanBegin(c) == loop = 0

\* A request arrives: the endpoint's coroutine is created with its arguments.
Submit(c, o, i, f, d) ==
    /\ calls[c].pc = "idle"
    /\ calls' = [calls EXCEPT ![c] =
         [IdleCall EXCEPT !.op = o, !.id = i, !.force = f, !.device = d,
            !.pc = "pending",
            !.conc = IF /\ o = "download_model"
                        /\ i \in ModelIds
                        /\ StatusOf(i) = "not_downloaded"
                        /\ \E p \in Calls \ {c} :
                             /\ calls[p].op = "download_model"
                             /\ calls[p].id = i
                             /\ calls[p].pc = "pending"
                     THEN CHOOSE p \in Calls \ {c} :
                             /\ calls[p].op = "download_model"
                             /\ calls[p].id = i
                             /\ calls[p].pc = "pending"
                     ELSE 0]]
    /\ UNCHANGED <<res_vars, live, loop>>
    /\ UNCHANGED non_manager_vars

SubmitAny(c) ==
    \/ \E i \in Ids, f \in BOOLEAN : Submit(c, "download_model", i, f, "auto")
    \/ \E i \in Ids, d \in DeviceArgs : Submit(c, "load_model", i, FALSE, d)
    \/ \E i \in Ids : Submit(c, "unload_model", i, FALSE, "auto")
    \/ \E i \in Ids : Submit(c, "get_model", i, FALSE, "auto")
    \/ Submit(c, "cleanup", UnknownId, FALSE, "auto")

\* The caller has received the result; the slot is free again.
Return(c) ==
    /\ calls[c].pc = "done"
    /\ calls' = [p \in Calls |->
                   IF p = c THEN IdleCall
                   ELSE IF calls[p].conc = c THEN [calls[p] EXCEPT !.conc = 0]
                   ELSE calls[p]]
    /\ UNCHANGED <<res_vars, live, loop>>
    /\ UNCHANGED non_manager_vars

\* The call record of c when it returns r, having logged the exception e.
Finished(c, r, e) ==
    [calls[c] EXCEPT !.pc = "done", !.result = r, !.cause = e,
                     !.start = IF calls[c].pc = "pending"
                               THEN StatusOf(calls[c].id) ELSE calls[c].start,
                     !.force = FALSE, !.device = "auto", !.dev = "none",
                     !.uid = UnknownId, !.ucaller = "none", !.idx = 0]

\* The call record of c when the event loop begins it at position p.
Begun(c, p) ==
    [calls[c] EXCEPT !.pc = p, !.start = StatusOf(calls[c].id)]

----------------------------------------------------------------------------
(* download_model(model_id, force) *)

always_fetch(m, force) == FALSE

\* "Check if already downloaded": model_path.exists() and not force.
already_downloaded(m, force) == path_exists[m] /\ ~force

\* Entry of download_model: unknown id, already downloaded, or go on to fetch.
download_begin(c) ==
    /\ calls[c].pc = "pending" /\ calls[c].op = "download_model"
    /\ CanBegin(c)
    /\ LET m == calls[c].id IN
       IF m \notin ModelIds THEN
          /\ calls' = [calls EXCEPT ![c] = Finished(c, "False", "not found")]
          /\ UNCHANGED loop
       ELSE IF already_downloaded(m, calls[c].force) THEN
          /\ calls' = [calls EXCEPT ![c] = Finished(c, "True", "none")]
          /\ UNCHANGED loop
       ELSE
          /\ calls' = [calls EXCEPT ![c] = Begun(c, "d_mkdir")]
          /\ loop' = c
    /\ UNCHANGED <<res_vars, live>>
    /\ UNCHANGED non_manager_vars

\* The except branch of download_model: remove the partial download.
download_except(m) == [path_exists EXCEPT ![m] = FALSE]

\* "Create model directory": model_path.mkdir(exist_ok=True).
download_mkdir(c) ==
    /\ calls[c].pc = "d_mkdir"
    /\ path_exists' = [path_exists EXCEPT ![calls[c].id] = TRUE]
    /\ calls' = [calls EXCEPT ![c].pc = "d_fetch"]
    /\ UNCHANGED <<is_loaded, model, tokenizer, memory_usage, live, loop>>
    /\ UNCHANGED non_manager_vars

\* snapshot_download(...): success returns True; failure runs the except
\* branch and returns False.
download_fetch(c) ==
    /\ calls[c].pc = "d_fetch"
    /\ LET m == calls[c].id IN
       \/ /\ calls' = [calls EXCEPT ![c] =
                [Finished(c, "True", "none") EXCEPT !.fetched = TRUE]]
          /\ UNCHANGED path_exists
       \/ /\ calls' = [calls EXCEPT ![c] =
                [Finished(c, "False", "exception") EXCEPT !.fetched = TRUE]]
          /\ path_exists' = download_except(m)
    /\ loop' = 0
    /\ UNCHANGED <<is_loaded, model, tokenizer, memory_usage, live>>
    /\ UNCHANGED non_manager_vars

download_model(c) == download_begin(c) \/ download_mkdir(c) \/ download_fetch(c)

----------------------------------------------------------------------------
(* unload_model(model_id), called by a request, by load_model or by cleanup *)

\* The call record of c when it calls unload_model(m) from `caller`.
CallUnload(c, m, caller) ==
    [calls[c] EXCEPT !.pc = "u_entry", !.uid = m, !.ucaller = caller]

\* unload_model returns r to its caller, having logged e when it failed.
\* load_model and cleanup ignore the value and go on.
UnloadReturn(c, r, e) ==
    /\ calls' = [calls EXCEPT ![c] =
         IF calls[c].ucaller = "top" THEN Finished(c, r, e)
         ELSE [calls[c] EXCEPT
                 !.pc = IF calls[c].ucaller = "load" THEN "l_tokenizer"
                        ELSE "c_loop",
                 !.cause = IF calls[c].ucaller = "cleanup" /\ r = "False"
                           THEN e ELSE @,
                 !.uid = UnknownId, !.ucaller = "none"]]
    /\ loop' = IF calls[c].ucaller = "top" THEN 0 ELSE loop

unload_begin(c) ==
    /\ calls[c].pc = "pending" /\ calls[c].op = "unload_model"
    /\ CanBegin(c)
    /\ calls' = [calls EXCEPT ![c] =
         [Begun(c, "u_entry") EXCEPT !.uid = calls[c].id, !.ucaller = "top"]]
    /\ loop' = c
    /\ UNCHANGED <<res_vars, live>>
    /\ UNCHANGED non_manager_vars

always_release(m) == FALSE

\* "if not model.is_loaded: return True"
unload_noop(m) == ~is_loaded[m]

\* Entry of unload_model: unknown id, not loaded, or go on to release.
unload_entry(c) ==
    /\ calls[c].pc = "u_entry"
    /\ LET m == calls[c].uid IN
       IF m \notin ModelIds THEN UnloadReturn(c, "False", "not found")
       ELSE IF unload_noop(m) THEN UnloadReturn(c, "True", "none")
       ELSE /\ calls' = [calls EXCEPT ![c].pc = "u_del_model"]
            /\ UNCHANGED loop
    /\ UNCHANGED <<res_vars, live>>
    /\ UNCHANGED non_manager_vars

\* "del model.model": drops the handle; AttributeError when the attribute
\* has already been deleted.
unload_del_model(c) ==
    /\ calls[c].pc = "u_del_model"
    /\ LET m == calls[c].uid IN
       IF model[m] = "absent" THEN
          /\ UnloadReturn(c, "False", "exception")
          /\ UNCHANGED <<model, live>>
       ELSE
          /\ model' = [model EXCEPT ![m] = "absent"]
          /\ live' = [live EXCEPT ![m] = IF model[m] = "obj" THEN @ - 1 ELSE @]
          /\ calls' = [calls EXCEPT ![c].pc = "u_del_tokenizer"]
          /\ UNCHANGED loop
    /\ UNCHANGED <<path_exists, is_loaded, tokenizer, memory_usage>>
    /\ UNCHANGED non_manager_vars

\* "del model.tokenizer"
unload_del_tokenizer(c) ==
    /\ calls[c].pc = "u_del_tokenizer"
    /\ LET m == calls[c].uid IN
       IF tokenizer[m] = "absent" THEN
          /\ UnloadReturn(c, "False", "exception")
          /\ UNCHANGED tokenizer
       ELSE
          /\ tokenizer' = [tokenizer EXCEPT ![m] = "absent"]
          /\ calls' = [calls EXCEPT ![c].pc = "u_gc"]
          /\ UNCHANGED loop
    /\ UNCHANGED <<path_exists, is_loaded, model, memory_usage, live>>
    /\ UNCHANGED non_manager_vars

\* gc.collect() and torch.cuda.empty_cache(): the backend-side reclamation;
\* when it raises, unload_model logs and returns False.
unload_gc(c) ==
    /\ calls[c].pc = "u_gc"
    /\ \/ /\ calls' = [calls EXCEPT ![c].pc = "u_reset"]
          /\ UNCHANGED loop
       \/ UnloadReturn(c, "False", "exception")
    /\ UNCHANGED <<res_vars, live>>
    /\ UNCHANGED non_manager_vars

\* "Reset model info" and return True.
unload_reset(c) ==
    /\ calls[c].pc = "u_reset"
    /\ LET m == calls[c].uid IN
       /\ model' = [model EXCEPT ![m] = "None"]
       /\ tokenizer' = [tokenizer EXCEPT ![m] = "None"]
       /\ is_loaded' = [is_loaded EXCEPT ![m] = FALSE]
       /\ memory_usage' = [memory_usage EXCEPT ![m] = 0]
    /\ UnloadReturn(c, "True", "none")
    /\ UNCHANGED <<path_exists, live>>
    /\ UNCHANGED non_manager_vars

unload_model(c) ==
    \/ unload_begin(c) \/ unload_entry(c) \/ unload_del_model(c)
    \/ unload_del_tokenizer(c) \/ unload_gc(c) \/ unload_reset(c)

----------------------------------------------------------------------------
(* load_model(model_id, device) *)

never_unload(m) == FALSE

\* "Unload if already loaded": if model.is_loaded: await self.unload_model(..)
needs_unload(m) == is_loaded[m]

path_check_skipped(m) == FALSE

\* "if not model_path.exists()": the artifacts of m are not downloaded.
path_missing(m) == ~path_exists[m]

\* Entry of load_model: unknown id, not downloaded, implicit unload, or go
\* on to load.
load_begin(c) ==
    /\ calls[c].pc = "pending" /\ calls[c].op = "load_model"
    /\ CanBegin(c)
    /\ LET m == calls[c].id IN
       IF m \notin ModelIds THEN
          /\ calls' = [calls EXCEPT ![c] = Finished(c, "False", "not found")]
          /\ UNCHANGED loop
       ELSE IF path_missing(m) THEN
          /\ calls' = [calls EXCEPT ![c] = Finished(c, "False", "not downloaded")]
          /\ UNCHANGED loop
       ELSE IF needs_unload(m) THEN
          /\ calls' = [calls EXCEPT ![c] =
                [Begun(c, "u_entry") EXCEPT !.uid = m, !.ucaller = "load"]]
          /\ loop' = c
       ELSE
          /\ calls' = [calls EXCEPT ![c] = Begun(c, "l_tokenizer")]
          /\ loop' = c
    /\ UNCHANGED <<res_vars, live>>
    /\ UNCHANGED non_manager_vars

load_except_keeps_flag(m) ==
    [model |-> "None", tokenizer |-> "None", is_loaded |-> is_loaded[m]]

\* The values the except branch of load_model assigns ("Clean up").
load_except(m) ==
    [model |-> "None", tokenizer |-> "None", is_loaded |-> FALSE]

\* A step of load_model's try block raises e: clean up and return False.
\* Reassigning model.model drops the handle it held.
LoadFail(c, e) ==
    LET m == calls[c].id IN
    /\ model' = [model EXCEPT ![m] = load_except(m).model]
    /\ tokenizer' = [tokenizer EXCEPT ![m] = load_except(m).tokenizer]
    /\ is_loaded' = [is_loaded EXCEPT ![m] = load_except(m).is_loaded]
    /\ live' = [live EXCEPT ![m] = IF model[m] = "obj" THEN @ - 1 ELSE @]
    /\ calls' = [calls EXCEPT ![c] = Finished(c, "False", e)]
    /\ loop' = 0

\* "Determine device" and "Load tokenizer".
load_tokenizer(c) ==
    /\ calls[c].pc = "l_tokenizer"
    /\ LET m == calls[c].id IN
       \/ /\ \E cuda_available \in BOOLEAN :
               calls' = [calls EXCEPT ![c].pc = "l_from_pretrained",
                   ![c].dev = IF calls[c].device = "auto"
                              THEN (IF cuda_available THEN "cuda" ELSE "cpu")
                              ELSE calls[c].device]
          /\ tokenizer' = [tokenizer EXCEPT ![m] = "obj"]
          /\ UNCHANGED <<model, is_loaded, live, loop>>
       \/ LoadFail(c, "exception")
    /\ UNCHANGED <<path_exists, memory_usage>>
    /\ UNCHANGED non_manager_vars

\* "Configure quantization" and AutoModelFor...from_pretrained(...): the
\* backend materializes a new handle, or raises.
load_from_pretrained(c) ==
    /\ calls[c].pc = "l_from_pretrained"
    /\ LET m == calls[c].id IN
       \/ /\ live' = [live EXCEPT ![m] = @ + 1]
          /\ calls' = [calls EXCEPT ![c].pc = "l_install"]
          /\ UNCHANGED <<model, tokenizer, is_loaded, loop>>
       \/ LoadFail(c, "exception")
    /\ UNCHANGED <<path_exists, memory_usage>>
    /\ UNCHANGED non_manager_vars

\* "model.model = ...": the new handle is installed; a handle the attribute
\* still held is dropped.
load_install(c) ==
    /\ calls[c].pc = "l_install"
    /\ LET m == calls[c].id IN
       /\ model' = [model EXCEPT ![m] = "obj"]
       /\ live' = [live EXCEPT ![m] = IF model[m] = "obj" THEN @ - 1 ELSE @]
    /\ calls' = [calls EXCEPT ![c].pc = "l_to"]
    /\ UNCHANGED <<path_exists, is_loaded, tokenizer, memory_usage, loop>>
    /\ UNCHANGED non_manager_vars

\* "Move to device if not using device_map".
load_to(c) ==
    /\ calls[c].pc = "l_to"
    /\ LET m == calls[c].id IN
       IF calls[c].dev # "cuda" \/ Quantization(m) = "None" THEN
          \/ /\ calls' = [calls EXCEPT ![c].pc = "l_update"]
             /\ UNCHANGED <<model, tokenizer, is_loaded, live, loop>>
          \/ LoadFail(c, "exception")
       ELSE
          /\ calls' = [calls EXCEPT ![c].pc = "l_update"]
          /\ UNCHANGED <<model, tokenizer, is_loaded, live, loop>>
    /\ UNCHANGED <<path_exists, memory_usage>>
    /\ UNCHANGED non_manager_vars

\* "Update model info"
load_update(c) ==
    /\ calls[c].pc = "l_update"
    /\ LET m == calls[c].id IN
       /\ is_loaded' = [is_loaded EXCEPT ![m] = TRUE]
    /\ calls' = [calls EXCEPT ![c].pc = "l_memory"]
    /\ UNCHANGED <<path_exists, model, tokenizer, memory_usage, live, loop>>
    /\ UNCHANGED non_manager_vars

\* "Calculate memory usage" and return True.
load_memory(c) ==
    /\ calls[c].pc = "l_memory"
    /\ LET m == calls[c].id IN
       \/ /\ \E reading \in 1..MaxMem :
               memory_usage' = [memory_usage EXCEPT ![m] = reading]
          /\ calls' = [calls EXCEPT ![c] = Finished(c, "True", calls[c].cause)]
          /\ loop' = 0
          /\ UNCHANGED <<model, tokenizer, is_loaded, live>>
       \/ /\ LoadFail(c, "exception")
          /\ UNCHANGED memory_usage
    /\ UNCHANGED path_exists
    /\ UNCHANGED non_manager_vars

load_model(c) ==
    \/ load_begin(c) \/ load_tokenizer(c) \/ load_from_pretrained(c)
    \/ load_install(c) \/ load_to(c) \/ load_update(c) \/ load_memory(c)

----------------------------------------------------------------------------
(* cleanup() *)

cleanup_begin(c) ==
    /\ calls[c].pc = "pending" /\ calls[c].op = "cleanup"
    /\ CanBegin(c)
    /\ calls' = [calls EXCEPT ![c] = [Begun(c, "c_loop") EXCEPT !.idx = 1]]
    /\ loop' = c
    /\ UNCHANGED <<res_vars, live>>
    /\ UNCHANGED non_manager_vars

cleanup_unloads_none(m) == FALSE

\* "if self.models[model_id].is_loaded": the entries cleanup unloads.
cleanup_unloads(m) == is_loaded[m]

\* One iteration of "for model_id in list(self.models.keys())": unload the
\* entry when it is loaded; return when the list is exhausted.
cleanup_loop(c) ==
    /\ calls[c].pc = "c_loop"
    /\ LET i == calls[c].idx IN
       IF i > Len(catalog) THEN
          /\ calls' = [calls EXCEPT ![c] = Finished(c, "None", calls[c].cause)]
          /\ loop' = 0
       ELSE IF cleanup_unloads(catalog[i]) THEN
          /\ calls' = [calls EXCEPT ![c] =
                [CallUnload(c, catalog[i], "cleanup") EXCEPT !.idx = i + 1]]
          /\ UNCHANGED loop
       ELSE
          /\ calls' = [calls EXCEPT ![c].idx = i + 1]
          /\ UNCHANGED loop
    /\ UNCHANGED <<res_vars, live>>
    /\ UNCHANGED non_manager_vars

cleanup(c) == cleanup_begin(c) \/ cleanup_loop(c)

----------------------------------------------------------------------------
(* get_model(model_id), called by the code generator and the code analyzer *)

get_model_call(c) ==
    /\ calls[c].pc = "pending" /\ calls[c].op = "get_model"
    /\ CanBegin(c)
    /\ calls' = [calls EXCEPT ![c] = Finished(c, get_model(calls[c].id), "none")]
    /\ UNCHANGED <<res_vars, live, loop>>
    /\ UNCHANGED non_manager_vars

----------------------------------------------------------------------------
Next ==
    \E c \in Calls :
        \/ SubmitAny(c)
        \/ download_model(c)
        \/ load_model(c)
        \/ unload_model(c)
        \/ cleanup(c)
        \/ get_model_call(c)
        \/ Return(c)

Spec == Init /\ [][Next]_vars

TypeOK ==
    /\ path_exists \in [ModelIds -> BOOLEAN]
    /\ is_loaded \in [ModelIds -> BOOLEAN]
    /\ model \in [ModelIds -> {"None", "obj", "absent"}]
    /\ tokenizer \in [ModelIds -> {"None", "obj", "absent"}]
    /\ memory_usage \in [ModelIds -> 0..MaxMem]
    /\ live \in [ModelIds -> 0..2]
    /\ loop \in Calls \cup {0}

----------------------------------------------------------------------------
(* Properties of the resource lifecycle *)

\* The event loop is between calls: no operation is part-way through.
Quiescent == loop = 0 /\ \A c \in Calls : ~Running(c)

\* Call c takes a step.
Steps(c) == calls'[c] # calls[c]
\* The event loop begins call c in this step.
Begins(c) == calls[c].pc = "pending" /\ calls'[c].pc # "pending"
\* Call c returns in this step.
Finishes(c) == calls[c].pc # "done" /\ calls'[c].pc = "done"

\* list_models reports the id with status "loaded".
ListedLoaded(model_id) ==
    \E i \in DOMAIN list_models :
        list_models[i].id = model_id /\ list_models[i].status = "loaded"

\* C1: between calls, a resource is marked loaded (is_loaded) if and only
\* if its backend handle (model.model) is present and not None.
C1_LoadedIffHandle ==
    Quiescent => \A m \in ModelIds : is_loaded[m] <=> model[m] = "obj"

\* C2: for every id, known or not, get_model(id) is not None exactly when
\* list_models reports the id as "loaded"; a get_model call returns that
\* value (None or the ModelInfo, never an exception) and changes no
\* resource state.
C2_GetMatchesList ==
    /\ [](\A i \in Ids : get_model(i) # "None" <=> ListedLoaded(i))
    /\ [][\A c \in Calls :
            (calls[c].op = "get_model" /\ Steps(c) /\ Finishes(c)) =>
               /\ calls'[c].result \in {"None", "ModelInfo"}
               /\ calls'[c].result # "None" <=> ListedLoaded(calls[c].id)
               /\ UNCHANGED <<res_vars, live>>]_vars

\* C2 witness: one get_model call has returned the ModelInfo of a loaded
\* resource and another has returned None for an id that is not loaded.
C2_Witness ==
    \E c1, c2 \in Calls :
        /\ calls[c1].op = "get_model" /\ calls[c1].pc = "done"
        /\ calls[c1].result = "ModelInfo" /\ ListedLoaded(calls[c1].id)
        /\ calls[c2].op = "get_model" /\ calls[c2].pc = "done"
        /\ calls[c2].result = "None" /\ ~ListedLoaded(calls[c2].id)

\* C3: when two download_model calls for the same id were in flight together
\* on a not_downloaded resource, exactly one of them has invoked
\* snapshot_download and both have returned the same outcome.
C3_OneFetch ==
    \A c1, c2 \in Calls :
        (/\ c1 # c2
         /\ calls[c2].conc = c1
         /\ calls[c1].pc = "done" /\ calls[c2].pc = "done") =>
            /\ (calls[c1].fetched /\ ~calls[c2].fetched)
                 \/ (~calls[c1].fetched /\ calls[c2].fetched)
            /\ calls[c1].result = calls[c2].result

\* Call c is executing a download, load or unload of resource m.
Operating(c, m) ==
    /\ Running(c)
    /\ \/ calls[c].op \in {"download_model", "load_model", "unload_model"}
          /\ calls[c].id = m
       \/ calls[c].uid = m

\* C4: for each id at most one download, load or unload is executing at any
\* time; in particular no load installs a handle while another call is
\* unloading the id, and no unload releases a handle while another call is
\* loading it.
C4_PerIdExclusion ==
    \A m \in ModelIds : \A c1, c2 \in Calls :
        (Operating(c1, m) /\ Operating(c2, m)) => c1 = c2

\* C4 witness: a load is about to install its handle while an unload of the
\* same id, submitted meanwhile, is waiting.
C4_Witness ==
    \E c1, c2 \in Calls :
        /\ calls[c1].op = "load_model" /\ calls[c1].pc = "l_install"
        /\ calls[c2].op = "unload_model" /\ calls[c2].pc = "pending"
        /\ calls[c2].id = calls[c1].id

\* C5: an id never has two live backend handles, and load_model starts to
\* materialize only when the id holds no handle (the handle of an earlier
\* load has been released by the implicit unload).
C5_OneLiveHandle ==
    /\ \A m \in ModelIds : live[m] <= 1
    /\ \A c \in Calls :
         calls[c].pc = "l_from_pretrained" =>
            model[calls[c].id] # "obj" /\ live[calls[c].id] = 0

\* C5 witness: a second load_model of a loaded id has materialized its
\* handle.
C5_Witness ==
    \E c \in Calls :
        /\ calls[c].op = "load_model" /\ calls[c].start = "loaded"
        /\ calls[c].pc = "l_install" /\ live[calls[c].id] = 1

\* C6: when snapshot_download fails in download_model, whatever the phase
\* at the start and whatever force is, the storage location is removed and
\* the phase afterwards is not_downloaded.
C6_FailedFetchNotDownloaded ==
    [][\A c \in Calls :
         (/\ calls[c].op = "download_model" /\ calls[c].pc = "d_fetch"
          /\ Finishes(c) /\ calls'[c].result = "False") =>
            /\ ~path_exists'[calls[c].id]
            /\ StatusOf(calls[c].id)' = "not_downloaded"]_vars

\* C7: when a backend step of load_model fails on a resource that was
\* "downloaded" when the call began, the call returns False and the
\* resource is "downloaded" afterwards, with no handle and no tokenizer.
C7_FailedLoadStaysDownloaded ==
    [][\A c \in Calls :
         (/\ calls[c].op = "load_model" /\ calls[c].start = "downloaded"
          /\ Running(c) /\ Finishes(c) /\ calls'[c].cause = "exception") =>
            /\ calls'[c].result = "False"
            /\ StatusOf(calls[c].id)' = "downloaded"
            /\ model'[calls[c].id] = "None"
            /\ tokenizer'[calls[c].id] = "None"
            /\ live'[calls[c].id] = 0]_vars

\* C7 witness: such a load_model has returned False after its failure.
C7_Witness ==
    \E c \in Calls :
        /\ calls[c].op = "load_model" /\ calls[c].pc = "done"
        /\ calls[c].start = "downloaded" /\ calls[c].cause = "exception"
        /\ calls[c].result = "False"
        /\ StatusOf(calls[c].id) = "downloaded"

\* What the endpoints of main.py give the caller of a failed operation as
\* the reason: "Failed to <operation> model <id>", whatever the failure was.
endpoint_detail(c) ==
    IF calls[c].result = "False" THEN "failed" ELSE "none"

\* C8: a failed download_model, load_model or unload_model returns its
\* failure together with the reason of the failure.
C8_ReasonReturned ==
    \A c \in Calls :
        (/\ calls[c].op \in {"download_model", "load_model", "unload_model"}
         /\ calls[c].pc = "done" /\ calls[c].result = "False") =>
            endpoint_detail(c) = calls[c].cause

\* C9: unload_model of a known resource that is not loaded returns True and
\* changes nothing in any resource.
C9_UnloadNotLoadedNoop ==
    [][\A c \in Calls :
         (/\ calls[c].op = "unload_model" /\ calls[c].id \in ModelIds
          /\ \/ Begins(c) /\ ~is_loaded[calls[c].id]
             \/ Running(c) /\ calls[c].start # "loaded" /\ Steps(c)) =>
            /\ Running(c) => calls'[c].pc = "done" /\ calls'[c].result = "True"
            /\ UNCHANGED <<res_vars, live>>]_vars

\* C9 witness: unload_model of a known, not loaded resource has returned.
C9_Witness ==
    \E c \in Calls :
        /\ calls[c].op = "unload_model" /\ calls[c].id \in ModelIds
        /\ calls[c].pc = "done" /\ calls[c].start # "loaded"
        /\ calls[c].result = "True"

\* C10: download_model(id, force=False) of a resource whose artifacts are
\* on disk returns True without invoking snapshot_download and changes
\* neither the artifacts nor any resource's state.
C10_DownloadedNoop ==
    [][\A c \in Calls :
         (/\ calls[c].op = "download_model" /\ calls[c].id \in ModelIds
          /\ Begins(c) /\ ~calls[c].force
          /\ path_exists[calls[c].id]) =>
            /\ calls'[c].pc = "done" /\ calls'[c].result = "True"
            /\ ~calls'[c].fetched
            /\ UNCHANGED <<res_vars, live>>]_vars

\* C10 witness: a download_model has returned True without fetching.
C10_Witness ==
    \E c \in Calls :
        /\ calls[c].op = "download_model" /\ calls[c].pc = "done"
        /\ calls[c].result = "True" /\ ~calls[c].fetched
        /\ calls[c].start \in {"downloaded", "loaded"}
        /\ path_exists[calls[c].id]

----------------------------------------------------------------------------
(* The resource-lifecycle health check of HealthChecker *)

check_model_health_no_half(models) ==
    LET total == Len(models)
        healthy == Cardinality({i \in 1..total : models[i].status = "loaded"})
    IN  [status |-> IF total = 0 THEN "not_available"
                    ELSE IF healthy = 0 THEN "critical"
                    ELSE "healthy",
         issues |-> <<>>,
         summary |-> [total_models |-> total, healthy_models |-> healthy]]

\* _check_model_health over the list `models` that list_models() returned:
\* the entries with status "loaded" are the healthy ones, an entry with
\* status "error" or "not_downloaded" adds an issue, and the status is
\* decided by the counts, each count branch adding its own issue.
check_model_health(models) ==
    LET total == Len(models)
        healthy == Cardinality({i \in 1..total : models[i].status = "loaded"})
        flagged == \E i \in 1..total : models[i].status = "error"
        reported == SelectSeq(models, LAMBDA e :
                        e.status \in {"error", "not_downloaded"})
        by_model == [i \in 1..Len(reported) |->
                        "Model " \o reported[i].id \o
                            (IF reported[i].status = "error"
                             THEN " in error state" ELSE " not downloaded")]
        by_count == IF total = 0 THEN <<"No models available">>
                    ELSE IF healthy = 0 THEN <<"No healthy models available">>
                    ELSE IF 2 * healthy < total
                         THEN <<"Less than 50% of models are healthy">>
                    ELSE <<>>
    IN  [status |-> IF total = 0 THEN "not_available"
                    ELSE IF healthy = 0 THEN "critical"
                    ELSE IF 2 * healthy < total THEN "warning"
                    ELSE IF flagged THEN "warning"
                    ELSE "healthy",
         issues |-> by_model \o by_count,
         summary |-> [total_models |-> total, healthy_models |-> healthy]]

----------------------------------------------------------------------------
(* A service whose catalog holds one resource, not downloaded at start *)

\* The resource of the one-resource catalog.
R == "tinyllama"

ScenarioInit ==
    /\ catalog = <<R>>
    /\ ManagerInit
    /\ MonitorInit
    /\ HealthInit
    /\ path_exists = [m \in ModelIds |-> FALSE]

ScenarioSpec == ScenarioInit /\ [][Next]_vars

\* C11: in a catalog of the one resource R, not downloaded at start: a
\* download of R that succeeds leaves R downloaded; a load(R, "auto") of
\* the downloaded R that succeeds leaves R loaded with its handle present
\* and a positive memory footprint, list_models then shows one loaded
\* resource of one and the model health check reports healthy; an unload
\* of the loaded R that succeeds, the artifacts being on disk as the download
\* left them, leaves R downloaded with no handle.
C11_Scenario ==
    [][\A c \in Calls :
         (Finishes(c) /\ calls[c].id = R /\ calls'[c].result = "True") =>
            /\ (calls[c].op = "download_model" /\ calls'[c].start = "not_downloaded")
                  => StatusOf(R)' = "downloaded"
            /\ (calls[c].op = "load_model" /\ calls[c].device = "auto"
                                     /\ calls'[c].start = "downloaded")
                  => /\ StatusOf(R)' = "loaded"
                     /\ model'[R] = "obj"
                     /\ memory_usage'[R] > 0
                     /\ Len(list_models') = 1
                     /\ list_models'[1].status = "loaded"
                     /\ check_model_health(list_models').status = "healthy"
            /\ (calls[c].op = "unload_model" /\ calls'[c].start = "loaded"
                                             /\ path_exists[R])
                  => /\ StatusOf(R)' = "downloaded"
                     /\ model'[R] # "obj"
                     /\ live'[R] = 0]_vars

\* C11 witness: R, not downloaded at start, has been downloaded and loaded
\* (the load call has returned True) and an unload of the loaded R has
\* returned True.
C11_Witness ==
    \E c1, c2 \in Calls :
        /\ calls[c1].op = "load_model" /\ calls[c1].pc = "done"
        /\ calls[c1].id = R /\ calls[c1].result = "True"
        /\ calls[c1].start = "downloaded"
        /\ calls[c2].op = "unload_model" /\ calls[c2].pc = "done"
        /\ calls[c2].id = R /\ calls[c2].result = "True"
        /\ calls[c2].start = "loaded"
        /\ StatusOf(R) = "downloaded"

----------------------------------------------------------------------------
(* Operations on different ids *)

\* C12: operations on different ids proceed independently: while a download
\* or load of one id is in flight, a download, load or unload of a different
\* id that has been requested can start (and so be in flight with it).
C12_DifferentIdsIndependent ==
    \A c1, c2 \in Calls :
        (/\ Running(c1)
         /\ calls[c1].op \in {"download_model", "load_model"}
         /\ calls[c2].pc = "pending"
         /\ calls[c2].op \in {"download_model", "load_model", "unload_model"}
         /\ calls[c1].id \in ModelIds /\ calls[c2].id \in ModelIds
         /\ calls[c1].id # calls[c2].id)
        => ENABLED (download_begin(c2) \/ load_begin(c2) \/ unload_begin(c2))

----------------------------------------------------------------------------
(* cleanup() at shutdown *)

\* Call c is executing unload_model.
InUnload(c) ==
    calls[c].pc \in {"u_entry", "u_del_model", "u_del_tokenizer", "u_gc",
                     "u_reset"}

\* C13: cleanup visits every catalog entry and calls unload_model for each
\* one that is loaded; whatever an unload returns, cleanup goes on with the
\* next entry; it returns only after the last entry, and when no unload it
\* called has failed, no resource is loaded and no handle is held then.
C13_CleanupUnloadsAll ==
    [][\A c \in Calls : calls[c].op = "cleanup" =>
         /\ (calls[c].pc = "c_loop" /\ Steps(c)
               /\ calls[c].idx <= Len(catalog)) =>
               /\ calls'[c].idx = calls[c].idx + 1
               /\ IF is_loaded[catalog[calls[c].idx]]
                  THEN /\ calls'[c].pc = "u_entry"
                       /\ calls'[c].uid = catalog[calls[c].idx]
                  ELSE calls'[c].pc = "c_loop"
         /\ (InUnload(c) /\ ~InUnload(c)') =>
               /\ calls'[c].pc = "c_loop"
               /\ calls'[c].idx = calls[c].idx
         /\ Finishes(c) =>
               /\ calls[c].idx > Len(catalog)
               /\ calls'[c].cause = "none" =>
                     \A m \in ModelIds :
                         ~is_loaded'[m] /\ model'[m] # "obj" /\ live'[m] = 0]_vars

\* C13 witness: the first unload cleanup called has failed (the resource is
\* still loaded) and cleanup is unloading the second loaded resource.
C13_Witness ==
    \E c \in Calls :
        /\ calls[c].op = "cleanup" /\ InUnload(c)
        /\ calls[c].cause = "exception"
        /\ calls[c].uid = "tinyllama"
        /\ is_loaded["codebert-small"] /\ is_loaded["tinyllama"]

----------------------------------------------------------------------------
(* PerformanceMonitor: the client's calls *)

\* The slot holds a thread that has been started and has not terminated.
Alive(t) == threads[t].pc \notin {"none", "dead"}

\* The last n elements of the list h: h[-n:] for n > 0.
Last(h, n) ==
    IF Len(h) <= n THEN h ELSE SubSeq(h, Len(h) - n + 1, Len(h))

\* The client record when its call o returns r.
Returned(o, r) == [op |-> o, pc |-> "ready", result |-> r]

\* start_monitoring(interval): nothing when already monitoring; otherwise
\* set the flag, create the thread and start it.  The new thread takes the
\* first slot that holds no live thread.
start_monitoring(i) ==
    /\ client.pc = "ready"
    /\ IF monitoring THEN
          UNCHANGED <<monitoring, monitor_thread, threads>>
       ELSE
          \E t \in Threads :
             /\ ~Alive(t) /\ \A u \in Threads : u < t => Alive(u)
             /\ monitoring' = TRUE
             /\ monitor_thread' = t
             /\ threads' = [threads EXCEPT ![t] =
                   [NoThread EXCEPT !.pc = "while", !.interval = i]]
    /\ client' = Returned("start_monitoring", "None")
    /\ UNCHANGED <<metrics_history, now>>
    /\ UNCHANGED non_telemetry_vars

\* The client record after stop_monitoring has returned inside call o:
\* cleanup goes on to clear the history.
AfterStop(o) ==
    IF o = "cleanup" THEN [op |-> o, pc |-> "clear", result |-> "none"]
    ELSE Returned(o, "None")

\* stop_monitoring(), called directly or by cleanup(): return when not
\* monitoring; otherwise clear the flag and join the thread.
stop_begin(o) ==
    /\ client.pc = "ready"
    /\ IF ~monitoring THEN
          /\ client' = AfterStop(o)
          /\ UNCHANGED monitoring
       ELSE
          /\ monitoring' = FALSE
          /\ client' = IF monitor_thread # 0
                       THEN [op |-> o, pc |-> "join", result |-> "none"]
                       ELSE AfterStop(o)
    /\ UNCHANGED <<monitor_thread, metrics_history, threads, now>>
    /\ UNCHANGED non_telemetry_vars

\* The join can time out only while the thread is in a sleep that, with the
\* sample before it, lasts longer than the timeout.
CanTimeOut(t) ==
    threads[t].pc = "sleep" /\ threads[t].interval + sample_time > join_timeout

\* self.monitor_thread.join(timeout=5) returns: the thread has terminated
\* or the timeout has expired.  stop_monitoring returns whichever it was.
stop_join ==
    /\ client.pc = "join"
    /\ ~Alive(monitor_thread) \/ CanTimeOut(monitor_thread)
    /\ threads' = [t \in Threads |->
                     IF Alive(t) THEN [threads[t] EXCEPT !.stopped = TRUE]
                     ELSE threads[t]]
    /\ client' = AfterStop(client.op)
    /\ UNCHANGED <<monitoring, monitor_thread, metrics_history, now>>
    /\ UNCHANGED non_telemetry_vars

stop_monitoring == stop_begin("stop_monitoring") \/ stop_join

\* cleanup(): stop_monitoring(), then self.metrics_history.clear().
cleanup_clear ==
    /\ client.pc = "clear"
    /\ metrics_history' = <<>>
    /\ client' = Returned("cleanup", "None")
    /\ UNCHANGED <<monitoring, monitor_thread, threads, now>>
    /\ UNCHANGED non_telemetry_vars

monitor_cleanup == stop_begin("cleanup") \/ cleanup_clear

\* The argument limit of get_metrics_history: None (not given) or an
\* integer n.
NoLimit == [given |-> FALSE, n |-> 0]

\* A limit larger than any history the monitor can hold.
LargeLimit == max_history_size + Cardinality(Threads) + 1

\* The limits get_metrics_history is called with: None, 0, 1 and a value
\* larger than the history.
Limits == {NoLimit} \cup {[given |-> TRUE, n |-> n] : n \in {0, 1, LargeLimit}}

\* "if limit:": None and 0 are false.
limit_truthy(limit) == limit.given /\ limit.n # 0

\* get_metrics_history(limit): the samples of history[-limit:] when limit is
\* true, of the whole history otherwise; the history is only read.
get_metrics_history(limit) ==
    /\ client.pc = "ready"
    /\ client' = Returned("get_metrics_history",
                          IF limit_truthy(limit)
                          THEN Last(metrics_history, limit.n)
                          ELSE metrics_history)
    /\ UNCHANGED <<monitoring, monitor_thread, metrics_history, threads, now>>
    /\ UNCHANGED non_telemetry_vars

\* The names the module performance_monitor binds at import.
imported_names ==
    {"asyncio", "time", "logging", "psutil", "threading", "Dict", "List",
     "Optional", "Any", "dataclass", "datetime"}

\* The durations get_average_metrics is called with, in clock units.
Durations == {1, 60}

\* What get_average_metrics(duration_minutes) does on the history h at time
\* t: its first statement evaluates the name timedelta; then {} when no
\* sample is as recent as the cutoff, the dictionary of averages otherwise.
average_metrics(h, t, duration_minutes) ==
    IF "timedelta" \notin imported_names THEN "NameError"
    ELSE IF SelectSeq(h, LAMBDA m : m.timestamp >= t - duration_minutes) = <<>>
         THEN "{}"
         ELSE "averages"

get_average_metrics(duration_minutes) ==
    /\ client.pc = "ready"
    /\ client' = Returned("get_average_metrics",
                          average_metrics(metrics_history, now,
                                          duration_minutes))
    /\ UNCHANGED <<monitoring, monitor_thread, metrics_history, threads, now>>
    /\ UNCHANGED non_telemetry_vars

----------------------------------------------------------------------------
(* PerformanceMonitor: _monitoring_loop, run by each sampler thread *)

\* "while self.monitoring:": go on to the body, or leave the loop, which
\* ends the thread.
loop_while(t) ==
    /\ threads[t].pc = "while"
    /\ threads' = [threads EXCEPT ![t].pc =
                      IF monitoring THEN "collect" ELSE "dead"]
    /\ UNCHANGED <<monitoring, monitor_thread, metrics_history, client, now>>
    /\ UNCHANGED non_telemetry_vars

\* The readings of psutil.cpu_percent, in percent.
CpuPercents == {50}

\* The sample get_current_metrics builds from the readings.
collected_metrics(timestamp, cpu_percent) ==
    [timestamp |-> timestamp, cpu_percent |-> cpu_percent]

default_metrics_unstamped(timestamp) == NoMetrics

\* The sample of the "except Exception" block of get_current_metrics:
\* timestamp=datetime.now() and every reading 0.
default_metrics(timestamp) == [timestamp |-> timestamp, cpu_percent |-> 0]

\* get_current_metrics() called at time t: the sample of the readings, or
\* the default sample when a reading raises.
current_metrics(t) ==
    {collected_metrics(t, cpu_percent) : cpu_percent \in CpuPercents}
        \cup {default_metrics(t)}

\* "metrics = self.get_current_metrics()": the call takes sample_time and
\* returns a sample also when a reading fails.
loop_collect(t) ==
    /\ threads[t].pc = "collect"
    /\ now < MaxClock
    /\ now' = now + sample_time
    /\ \E metrics \in current_metrics(now + sample_time) :
          threads' = [threads EXCEPT ![t].pc = "append",
                                     ![t].metrics = metrics]
    /\ UNCHANGED <<monitoring, monitor_thread, metrics_history, client>>
    /\ UNCHANGED non_telemetry_vars

\* "self.metrics_history.append(metrics)"
loop_append(t) ==
    /\ threads[t].pc = "append"
    /\ metrics_history' = Append(metrics_history, threads[t].metrics)
    /\ threads' = [threads EXCEPT ![t].pc = "trim", ![t].metrics = NoMetrics]
    /\ UNCHANGED <<monitoring, monitor_thread, client, now>>
    /\ UNCHANGED non_telemetry_vars

\* "if len(self.metrics_history) > self.max_history_size:": the test reads
\* the history.
loop_trim(t) ==
    /\ threads[t].pc = "trim"
    /\ threads' = [threads EXCEPT ![t].pc =
         IF Len(metrics_history) > max_history_size THEN "slice" ELSE "sleep"]
    /\ UNCHANGED <<monitoring, monitor_thread, metrics_history, client, now>>
    /\ UNCHANGED non_telemetry_vars

\* The right-hand side self.metrics_history[-self.max_history_size:] of the
\* assignment: it reads the history again, as it is now.
loop_slice(t) ==
    /\ threads[t].pc = "slice"
    /\ threads' = [threads EXCEPT ![t].pc = "rebind",
                      ![t].tmp = Last(metrics_history, max_history_size)]
    /\ UNCHANGED <<monitoring, monitor_thread, metrics_history, client, now>>
    /\ UNCHANGED non_telemetry_vars

\* "self.metrics_history = <the slice>": the attribute is bound to the new
\* list.
loop_rebind(t) ==
    /\ threads[t].pc = "rebind"
    /\ metrics_history' = threads[t].tmp
    /\ threads' = [threads EXCEPT ![t].pc = "sleep", ![t].tmp = <<>>]
    /\ UNCHANGED <<monitoring, monitor_thread, client, now>>
    /\ UNCHANGED non_telemetry_vars

\* "time.sleep(interval)" returns.
loop_sleep(t) ==
    /\ threads[t].pc = "sleep"
    /\ threads' = [threads EXCEPT ![t].pc = "while"]
    /\ UNCHANGED <<monitoring, monitor_thread, metrics_history, client, now>>
    /\ UNCHANGED non_telemetry_vars

monitoring_loop(t) ==
    \/ loop_while(t) \/ loop_collect(t) \/ loop_append(t)
    \/ loop_trim(t) \/ loop_slice(t) \/ loop_rebind(t) \/ loop_sleep(t)

TelemetryNext ==
    \/ \E i \in Intervals : start_monitoring(i)
    \/ stop_monitoring
    \/ monitor_cleanup
    \/ \E limit \in Limits : get_metrics_history(limit)
    \/ \E d \in Durations : get_average_metrics(d)
    \/ \E t \in Threads : monitoring_loop(t)

\* The monitor of a service that has downloaded nothing: the monitor does
\* not read the model manager.
TelemetryInit == Init /\ path_exists = [m \in ModelIds |-> FALSE]

TelemetrySpec == TelemetryInit /\ [][TelemetryNext]_vars

TelemetryTypeOK ==
    /\ monitoring \in BOOLEAN
    /\ monitor_thread \in Threads \cup {0}
    /\ Len(metrics_history) <= max_history_size + Cardinality(Threads)
    /\ \A i \in 1..Len(metrics_history) :
          /\ metrics_history[i].timestamp \in 1..MaxClock
          /\ metrics_history[i].cpu_percent \in CpuPercents \cup {0}
    /\ \A t \in Threads :
          threads[t].pc \in {"none", "while", "collect", "append", "trim",
                             "slice", "rebind", "sleep", "dead"}
    /\ client.pc \in {"ready", "join", "clear"}
    /\ now \in 0..MaxClock

----------------------------------------------------------------------------
(* Properties of the telemetry history *)

\* C14: in every state, hence in every state a reader can observe while the
\* sampler thread is appending, the telemetry history holds at most
\* max_history_size samples, and so does every list get_metrics_history has
\* returned; the samples are kept oldest first.
C14_HistoryBounded ==
    /\ Len(metrics_history) <= max_history_size
    /\ client.op = "get_metrics_history" =>
          Len(client.result) <= max_history_size
    /\ \A i, j \in 1..Len(metrics_history) :
          i < j => metrics_history[i].timestamp < metrics_history[j].timestamp

\* C15: a get_average_metrics(duration) call made when no sample of the
\* history is within the duration (an empty history included) returns the
\* empty dictionary: it does not raise and returns no averages.
C15_NoSampleNoAverages ==
    [][\A d \in Durations :
         (/\ get_average_metrics(d)
          /\ SelectSeq(metrics_history, LAMBDA m : m.timestamp >= now - d) = <<>>)
         => client'.result = "{}"]_vars

\* C16: once a stop_monitoring() or cleanup() call has returned, a sampling
\* loop that was running when the call was made has terminated: it takes no
\* further sample and appends nothing more to the history, whatever its
\* interval and wherever in the loop it was when the stop was requested.
C16_StoppedLoopSamplesNoMore ==
    [][\A t \in Threads :
         threads[t].stopped => ~(loop_collect(t) \/ loop_append(t))]_vars

----------------------------------------------------------------------------
(* HealthChecker: the functions that decide a status *)

\* The statuses a sub-check reports.
Statuses == {"healthy", "not_available", "warning", "error", "critical"}

status_priority_flat(status) ==
    IF status \in {"critical", "error"} THEN 3
    ELSE IF status = "warning" THEN 2
    ELSE IF status = "not_available" THEN 1
    ELSE 0

\* status_priority.get(status, 0)
status_priority(status) ==
    IF status = "critical" THEN 4
    ELSE IF status = "error" THEN 3
    ELSE IF status = "warning" THEN 2
    ELSE IF status = "not_available" THEN 1
    ELSE 0

\* The keys of the dictionary status_priority, in insertion order.
priority_keys == <<"critical", "error", "warning", "not_available", "healthy">>

\* The loop "for status in statuses": highest_priority after the entries
\* from position i on have been visited, acc being its value before them.
RECURSIVE highest_priority(_, _, _)
highest_priority(statuses, i, acc) ==
    IF i > Len(statuses) THEN acc
    ELSE highest_priority(statuses, i + 1,
            IF status_priority(statuses[i]) > acc
            THEN status_priority(statuses[i]) ELSE acc)

\* The loop that maps the priority back: the first key, from position i on,
\* whose priority is p; "unknown" when there is none.
RECURSIVE status_of_priority(_, _)
status_of_priority(p, i) ==
    IF i > Len(priority_keys) THEN "unknown"
    ELSE IF status_priority(priority_keys[i]) = p THEN priority_keys[i]
    ELSE status_of_priority(p, i + 1)

\* _calculate_overall_status on the four sub-reports.
calculate_overall_status(system_health, model_health, performance_health, service_health) ==
    status_of_priority(
        highest_priority(<<system_health.status, model_health.status,
                           performance_health.status, service_health.status>>,
                         1, 0),
        1)

\* The arguments _calculate_overall_status is applied to: four sub-reports
\* with any statuses.
OverallArgs == [1..4 -> Statuses]

apply_calculate_overall_status ==
    /\ call_args.f = "_calculate_overall_status" /\ ~call_result.applied
    /\ call_result' = Result(calculate_overall_status(
                          [status |-> call_args.a[1]], [status |-> call_args.a[2]],
                          [status |-> call_args.a[3]], [status |-> call_args.a[4]]))
    /\ UNCHANGED <<dependencies, call_args,
                   checks, health_check_history, executing,
                   checks_begun>>
    /\ UNCHANGED non_health_vars

\* The severity order of the statuses, least severe first.
SeverityOrder == <<"healthy", "not_available", "warning", "error", "critical">>
Severity(status) ==
    CHOOSE k \in 1..Len(SeverityOrder) : SeverityOrder[k] = status

\* C17: the overall status _calculate_overall_status returns is the maximum
\* of the four sub-report statuses under healthy < not_available < warning <
\* error < critical: it is one of the four and none of them is more severe.
C17_OverallIsMaximum ==
    (call_args.f = "_calculate_overall_status" /\ call_result.applied) =>
        /\ \E i \in 1..4 : call_result.value = call_args.a[i]
        /\ \A i \in 1..4 :
              Severity(call_args.a[i]) <= Severity(call_result.value)

\* C17 witness: the function has been applied to sub-reports of which
\* exactly one has the most severe status, "error", with a "not_available"
\* and a "warning" among the others, and has returned "error".
C17_Witness ==
    /\ call_args.f = "_calculate_overall_status"
    /\ call_args.a = <<"warning", "not_available", "healthy", "error">>
    /\ call_result = Result("error")

\* The readings the system check is applied to: values on both sides of each
\* threshold.
CpuReadings == {50, 75, 76, 90, 91, 96}
MemoryReadings == {50, 80, 81, 90, 91}
DiskReadings == {50, 85, 86, 95, 96}
ProcessCounts == {1000, 1001}
SystemArgs ==
    [cpu_percent : CpuReadings, memory_percent : MemoryReadings,
     disk_percent : DiskReadings, process_count : ProcessCounts]

\* The body of _check_system_health on the sample `metrics`: the four
\* blocks run in turn, each assigning system_status when its reading is
\* over a threshold and appending its issue.
check_system_health(metrics) ==
    LET after_cpu ==
            IF metrics.cpu_percent > 90 THEN "critical"
            ELSE IF metrics.cpu_percent > 75 THEN "warning"
            ELSE "healthy"
        after_memory ==
            IF metrics.memory_percent > 90 THEN "critical"
            ELSE IF metrics.memory_percent > 80 THEN "warning"
            ELSE after_cpu
        after_disk ==
            IF metrics.disk_percent > 95 THEN "critical"
            ELSE IF metrics.disk_percent > 85 THEN "warning"
            ELSE after_memory
        after_process ==
            IF metrics.process_count > 1000 THEN "warning" ELSE after_disk
        cpu_issue ==
            IF metrics.cpu_percent > 90 THEN <<"Critical CPU usage">>
            ELSE IF metrics.cpu_percent > 75 THEN <<"High CPU usage">>
            ELSE <<>>
        memory_issue ==
            IF metrics.memory_percent > 90 THEN <<"Critical memory usage">>
            ELSE IF metrics.memory_percent > 80 THEN <<"High memory usage">>
            ELSE <<>>
        disk_issue ==
            IF metrics.disk_percent > 95 THEN <<"Critical disk usage">>
            ELSE IF metrics.disk_percent > 85 THEN <<"High disk usage">>
            ELSE <<>>
        process_issue ==
            IF metrics.process_count > 1000 THEN <<"High process count">>
            ELSE <<>>
    IN  [status |-> after_process,
         issues |-> cpu_issue \o memory_issue \o disk_issue \o process_issue]

\* The reports of the three other sub-checks when they find nothing.
HealthyReport == [status |-> "healthy", issues |-> <<>>]

\* _check_system_health on a sample, and the overall status when the three
\* other sub-checks report healthy.
apply_check_system_health ==
    /\ call_args.f = "_check_system_health" /\ ~call_result.applied
    /\ call_result' = Result(
          [report |-> check_system_health(call_args.a),
           overall |-> calculate_overall_status(
                           check_system_health(call_args.a),
                           HealthyReport, HealthyReport, HealthyReport)])
    /\ UNCHANGED <<dependencies, call_args,
                   checks, health_check_history, executing,
                   checks_begun>>
    /\ UNCHANGED non_health_vars

\* C18: the system check reports critical when CPU > 90, memory > 90 or
\* disk > 95; otherwise warning when CPU > 75, memory > 80, disk > 85 or
\* the process count > 1000; otherwise healthy; it lists one issue per
\* reading over a threshold; and with CPU at 96 it reports critical with a
\* CPU issue, and the overall status is critical, whatever the other
\* readings are.
C18_HighestBreachReported ==
    (call_args.f = "_check_system_health" /\ call_result.applied) =>
        LET m == call_args.a
            got == call_result.value
            critical == m.cpu_percent > 90 \/ m.memory_percent > 90
                           \/ m.disk_percent > 95
            warning == m.cpu_percent > 75 \/ m.memory_percent > 80
                          \/ m.disk_percent > 85 \/ m.process_count > 1000
            breaches == Cardinality({r \in {"cpu", "memory", "disk", "process"} :
                           \/ r = "cpu" /\ m.cpu_percent > 75
                           \/ r = "memory" /\ m.memory_percent > 80
                           \/ r = "disk" /\ m.disk_percent > 85
                           \/ r = "process" /\ m.process_count > 1000})
        IN  /\ got.report.status =
                  IF critical THEN "critical"
                  ELSE IF warning THEN "warning" ELSE "healthy"
            /\ Len(got.report.issues) = breaches
            /\ m.cpu_percent = 96 =>
                  /\ got.report.status = "critical"
                  /\ got.report.issues[1] = "Critical CPU usage"
                  /\ got.overall = "critical"

\* The lists list_models() can return for a catalog of at most MaxModels
\* resources: each entry loaded, downloaded or not downloaded.
MaxModels == 3
ModelLists ==
    UNION {[1..n -> {"loaded", "downloaded", "not_downloaded"}] : n \in 0..MaxModels}

\* The list_models() result whose entries have the statuses of `statuses`.
ListOf(statuses) ==
    [i \in 1..Len(statuses) |->
        [id |-> ToString(i), status |-> statuses[i],
         is_loaded |-> statuses[i] = "loaded"]]

\* _check_model_health on a list of models, and the overall status when the
\* three other sub-checks report healthy.
apply_check_model_health ==
    /\ call_args.f = "_check_model_health" /\ ~call_result.applied
    /\ call_result' = Result(
          [report |-> check_model_health(ListOf(call_args.a)),
           overall |-> calculate_overall_status(
                           HealthyReport, check_model_health(ListOf(call_args.a)),
                           HealthyReport, HealthyReport)])
    /\ UNCHANGED <<dependencies, call_args,
                   checks, health_check_history, executing,
                   checks_begun>>
    /\ UNCHANGED non_health_vars

\* The texts str(e) of the exceptions a sub-check's body raises.
Failures == {"access denied"}

failed_check_ignored(label, e) == [status |-> "healthy", issues |-> <<>>]

\* What the sub-check `label` returns from its "except Exception" block when
\* its body has raised e.
failed_check_report(label, e) ==
    [status |-> "error", issues |-> <<label \o " health check failed: " \o e>>]

\* What the body of a sub-check does in a run_specific_check call: it
\* raises `error`, or it returns `report`.
Outcomes ==
    {[raised |-> TRUE, error |-> e, report |-> NoReport] : e \in Failures}
        \cup {[raised |-> FALSE, error |-> "", report |-> HealthyReport]}

unguarded_check(label, outcome) ==
    IF outcome.raised THEN [status |-> "raised", issues |-> <<>>]
    ELSE outcome.report

\* A sub-check: its body inside "try", its "except Exception" block.
guarded_check(label, outcome) ==
    IF outcome.raised THEN failed_check_report(label, outcome.error)
    ELSE outcome.report

\* The check types run_specific_check is called with: the four it knows and
\* one it does not.
CheckTypes == {"system", "models", "performance", "service", "network"}

\* run_specific_check(check_type), the body of the sub-check it selects
\* ending with `outcome`.
run_specific_check(check_type, outcome) ==
    IF check_type = "system" THEN guarded_check("System", outcome)
    ELSE IF check_type = "models" THEN guarded_check("Model", outcome)
    ELSE IF check_type = "performance"
         THEN guarded_check("Performance", outcome)
    ELSE IF check_type = "service" THEN guarded_check("Service", outcome)
    ELSE [status |-> "error",
          issues |-> <<"Unknown check type: " \o check_type>>]

SpecificArgs == CheckTypes \X Outcomes

\* The call is suspended at "await asyncio.sleep(0.1)" of
\* _check_service_health and the event loop runs other coroutines.
Suspended == [applied |-> FALSE, value |-> "asleep"]

\* run_specific_check("service") from its start to the sleep of
\* _check_service_health, where the coroutine yields to the event loop.
run_specific_check_sleep ==
    /\ call_args.f = "run_specific_check" /\ call_args.a[1] = "service"
    /\ call_result = NoResult
    /\ call_result' = Suspended
    /\ UNCHANGED <<dependencies, call_args,
                   checks, health_check_history, executing,
                   checks_begun>>
    /\ UNCHANGED non_health_vars

\* run_specific_check to its return: the whole call for the check types
\* that never yield, the part after the sleep for "service".
apply_run_specific_check ==
    /\ call_args.f = "run_specific_check" /\ ~call_result.applied
    /\ call_result = IF call_args.a[1] = "service" THEN Suspended
                     ELSE NoResult
    /\ call_result' = Result(run_specific_check(call_args.a[1],
                                                call_args.a[2]))
    /\ UNCHANGED <<dependencies, call_args,
                   checks, health_check_history, executing,
                   checks_begun>>
    /\ UNCHANGED non_health_vars

\* The functions applied on their own, to every argument of their domains.
FunctionInit ==
    /\ catalog = ModelOrder
    /\ ManagerInit
    /\ path_exists = [m \in ModelIds |-> FALSE]
    /\ MonitorInit
    /\ CheckerInit
    /\ call_result = NoResult
    /\ \/ \E a \in OverallArgs :
             call_args = [f |-> "_calculate_overall_status", a |-> a]
       \/ \E a \in SystemArgs :
             call_args = [f |-> "_check_system_health", a |-> a]
       \/ \E a \in ModelLists :
             call_args = [f |-> "_check_model_health", a |-> a]
       \/ \E a \in SpecificArgs :
             call_args = [f |-> "run_specific_check", a |-> a]

FunctionNext ==
    \/ apply_calculate_overall_status
    \/ apply_check_system_health
    \/ apply_check_model_health
    \/ run_specific_check_sleep
    \/ apply_run_specific_check

FunctionSpec == FunctionInit /\ [][FunctionNext]_vars

\* C19: the model check reports not_available when no resource is
\* registered, otherwise critical when none is loaded, otherwise warning
\* when fewer than half are loaded, otherwise healthy; and with no resource
\* registered the overall status is at least not_available when the three
\* other sub-checks report healthy.
C19_ModelStatusByCounts ==
    (call_args.f = "_check_model_health" /\ call_result.applied) =>
        LET registered == Len(call_args.a)
            loaded == Cardinality({i \in 1..registered :
                                      call_args.a[i] = "loaded"})
            got == call_result.value
        IN  /\ got.report.status =
                  IF registered = 0 THEN "not_available"
                  ELSE IF loaded = 0 THEN "critical"
                  ELSE IF 2 * loaded < registered THEN "warning"
                  ELSE "healthy"
            /\ registered = 0 =>
                  Severity(got.overall) >= Severity("not_available")

\* C19 witness: the check has been applied to three registered resources of
\* which one is loaded and has reported warning.
C19_Witness ==
    /\ call_args.f = "_check_model_health"
    /\ call_args.a = <<"downloaded", "loaded", "not_downloaded">>
    /\ call_result.applied
    /\ call_result.value.report.status = "warning"

----------------------------------------------------------------------------
(* HealthChecker: check_health() *)

\* check_health is a coroutine: the event loop runs a call from its start
\* to the "await asyncio.sleep(0.1)" of _check_service_health, and from
\* there to its return, without running another call in between.

\* The samples get_current_metrics returns to the checks of a check_health
\* call: an idle system and one with CPU at 96.
PipelineSamples ==
    {[cpu_percent |-> c, memory_percent |-> 50, disk_percent |-> 50,
      process_count |-> 100] : c \in {50, 96}}

\* The resources get_system_resources returns to the checks of a
\* check_health call: {} (has = FALSE) when it failed, the readings
\* otherwise; here the readings of an idle system.
PipelineResources ==
    [has : {TRUE}, memory_percent : {50}, disk_percent : {50}]

\* The body of _check_performance_health on `resources` (no entry of
\* resources["cpu"] is named "temperature").
check_performance_health(resources) ==
    LET pressure == resources.has /\ resources.memory_percent > 85
        disk == resources.has /\ resources.disk_percent > 90
    IN  [status |-> IF pressure \/ disk THEN "warning" ELSE "healthy",
         issues |->
            (IF pressure THEN <<"High memory pressure">> ELSE <<>>) \o
            (IF disk THEN <<"High disk usage affecting performance">>
             ELSE <<>>)]

\* The response times (ms) the service check measures across its sleep of
\* 0.1 s: about 100 when the event loop resumes the call at once, about
\* 3000 when another check_health call holds the event loop meanwhile for
\* its three cpu_percent(interval=1) readings; and the resident memory (MB).
ResponseTimes == {100, 3001}
ServiceMemory == {100}

service_ignores_dependencies == [model_manager |-> TRUE, performance_monitor |-> TRUE]

\* What the tests "if not self.model_manager" and "if not
\* self.performance_monitor" of _check_service_health read.
service_dependencies == dependencies

\* The body of _check_service_health.
check_service_health(response_time, memory_usage_mb) ==
    LET no_manager == ~service_dependencies.model_manager
        no_monitor == ~service_dependencies.performance_monitor
    IN  [status |-> IF no_manager \/ no_monitor \/ response_time > 1000
                       \/ memory_usage_mb > 500
                    THEN "warning" ELSE "healthy",
         issues |->
            (IF no_manager THEN <<"Model manager not available">> ELSE <<>>) \o
            (IF no_monitor THEN <<"Performance monitor not available">>
             ELSE <<>>) \o
            (IF response_time > 1000 THEN <<"Slow response time">> ELSE <<>>) \o
            (IF memory_usage_mb > 500 THEN <<"High memory usage">> ELSE <<>>)]

\* str(e) of the AttributeError raised by self.performance_monitor.<name>
\* when the attribute is None.
NoneHasNo(name) == "'NoneType' object has no attribute '" \o name \o "'"

\* The event loop begins a check_health call.
check_begin(k) ==
    /\ checks[k].pc = "idle"
    /\ executing = 0
    /\ checks_begun < MaxChecks
    /\ checks_begun' = checks_begun + 1
    /\ checks' = [checks EXCEPT ![k] =
          [IdleCheck EXCEPT !.pc = "system", !.ordinal = checks_begun + 1]]
    /\ executing' = k
    /\ UNCHANGED <<dependencies, call_args,
                   call_result, health_check_history>>
    /\ UNCHANGED non_health_vars

\* "system_health = await self._check_system_health()"
check_system(k) ==
    /\ checks[k].pc = "system"
    /\ \/ /\ dependencies.performance_monitor
          /\ \E metrics \in PipelineSamples :
               checks' = [checks EXCEPT ![k].pc = "model",
                             ![k].system_health = check_system_health(metrics)]
       \/ \E e \in IF dependencies.performance_monitor THEN Failures
                    ELSE {NoneHasNo("get_current_metrics")} :
             checks' = [checks EXCEPT ![k].pc = "model", ![k].failed = TRUE,
                           ![k].system_health =
                              failed_check_report("System", e)]
    /\ UNCHANGED <<dependencies, call_args,
                   call_result, health_check_history, executing,
                   checks_begun>>
    /\ UNCHANGED non_health_vars

\* "model_health = await self._check_model_health()"
check_model(k) ==
    /\ checks[k].pc = "model"
    /\ IF ~dependencies.model_manager THEN
          checks' = [checks EXCEPT ![k].pc = "performance",
                        ![k].model_health =
                           [status |-> "not_available",
                            issues |-> <<"Model manager not available">>]]
       ELSE
          \/ LET report == check_model_health(list_models) IN
             checks' = [checks EXCEPT ![k].pc = "performance",
                           ![k].model_health =
                              [status |-> report.status,
                               issues |-> report.issues]]
          \/ \E e \in Failures :
                checks' = [checks EXCEPT ![k].pc = "performance",
                              ![k].failed = TRUE,
                              ![k].model_health =
                                 failed_check_report("Model", e)]
    /\ UNCHANGED <<dependencies, call_args,
                   call_result, health_check_history, executing,
                   checks_begun>>
    /\ UNCHANGED non_health_vars

\* "performance_health = await self._check_performance_health()"
check_performance(k) ==
    /\ checks[k].pc = "performance"
    /\ \/ /\ dependencies.performance_monitor
          /\ \E resources \in PipelineResources :
               checks' = [checks EXCEPT ![k].pc = "service",
                             ![k].performance_health =
                                check_performance_health(resources)]
       \/ \E e \in IF dependencies.performance_monitor THEN Failures
                    ELSE {NoneHasNo("get_system_resources")} :
             checks' = [checks EXCEPT ![k].pc = "service", ![k].failed = TRUE,
                           ![k].performance_health =
                              failed_check_report("Performance", e)]
    /\ UNCHANGED <<dependencies, call_args,
                   call_result, health_check_history, executing,
                   checks_begun>>
    /\ UNCHANGED non_health_vars

\* _check_service_health up to "await asyncio.sleep(0.1)": the call is
\* suspended and the event loop is free.
check_service_sleep(k) ==
    /\ checks[k].pc = "service"
    /\ checks' = [checks EXCEPT ![k].pc = "asleep"]
    /\ executing' = 0
    /\ UNCHANGED <<dependencies, call_args,
                   call_result, health_check_history, checks_begun>>
    /\ UNCHANGED non_health_vars

\* The sleep is over and the event loop resumes the call: the rest of
\* _check_service_health.
check_service(k) ==
    /\ checks[k].pc = "asleep"
    /\ executing = 0
    /\ executing' = k
    /\ \/ \E response_time \in ResponseTimes, memory_usage_mb \in ServiceMemory :
             checks' = [checks EXCEPT ![k].pc = "overall",
                           ![k].service_health =
                              check_service_health(response_time,
                                                   memory_usage_mb)]
       \/ \E e \in Failures :
             checks' = [checks EXCEPT ![k].pc = "overall", ![k].failed = TRUE,
                           ![k].service_health =
                              failed_check_report("Service", e)]
    /\ UNCHANGED <<dependencies, call_args,
                   call_result, health_check_history, checks_begun>>
    /\ UNCHANGED non_health_vars

\* A step of check_health outside the sub-checks raises: control goes to
\* the "except Exception" block of check_health.
Raise(k) ==
    checks' = [checks EXCEPT ![k].pc = "except", ![k].failed = TRUE]

\* "overall_status = self._calculate_overall_status(...)"
check_overall(k) ==
    /\ checks[k].pc = "overall"
    /\ \/ checks' = [checks EXCEPT ![k].pc = "report",
                        ![k].overall_status =
                           calculate_overall_status(
                               checks[k].system_health, checks[k].model_health,
                               checks[k].performance_health,
                               checks[k].service_health)]
       \/ Raise(k)
    /\ UNCHANGED <<dependencies, call_args,
                   call_result, health_check_history, executing,
                   checks_begun>>
    /\ UNCHANGED non_health_vars

\* "health_report = {...}", with the recommendations.
check_report(k) ==
    /\ checks[k].pc = "report"
    /\ \/ checks' = [checks EXCEPT ![k].pc = "append"]
       \/ Raise(k)
    /\ UNCHANGED <<dependencies, call_args,
                   call_result, health_check_history, executing,
                   checks_begun>>
    /\ UNCHANGED non_health_vars

\* The entry of the history for the report of call k: its status and the
\* ordinal of the call that produced it.
HistoryEntry(k) ==
    [status |-> checks[k].overall_status, ordinal |-> checks[k].ordinal]

\* "self.health_check_history.append(health_report)", the trimming of the
\* history and "return health_report".
check_append(k) ==
    /\ checks[k].pc = "append"
    /\ \/ /\ health_check_history' =
                Last(Append(health_check_history, HistoryEntry(k)),
                     health_max_history_size)
          /\ checks' = [checks EXCEPT ![k] =
                [IdleCheck EXCEPT !.pc = "done", !.ordinal = checks[k].ordinal,
                    !.failed = checks[k].failed,
                    !.result = [kind |-> "report",
                                status |-> checks[k].overall_status]]]
          /\ executing' = 0
       \/ /\ Raise(k)
          /\ UNCHANGED <<health_check_history, executing>>
    /\ UNCHANGED <<dependencies, call_args,
                   call_result, checks_begun>>
    /\ UNCHANGED non_health_vars

\* The "except Exception" block of check_health: log and return a result
\* with status "error".
check_except(k) ==
    /\ checks[k].pc = "except"
    /\ checks' = [checks EXCEPT ![k] =
          [IdleCheck EXCEPT !.pc = "done", !.ordinal = checks[k].ordinal,
              !.failed = checks[k].failed,
              !.result = [kind |-> "error", status |-> "error"]]]
    /\ executing' = 0
    /\ UNCHANGED <<dependencies, call_args,
                   call_result, health_check_history, checks_begun>>
    /\ UNCHANGED non_health_vars

\* The caller has received the result.
check_return(k) ==
    /\ checks[k].pc = "done"
    /\ checks' = [checks EXCEPT ![k] = IdleCheck]
    /\ UNCHANGED <<dependencies, call_args,
                   call_result, health_check_history, executing,
                   checks_begun>>
    /\ UNCHANGED non_health_vars

check_health(k) ==
    \/ check_begin(k) \/ check_system(k) \/ check_model(k)
    \/ check_performance(k) \/ check_service_sleep(k) \/ check_service(k)
    \/ check_overall(k) \/ check_report(k) \/ check_append(k)
    \/ check_except(k) \/ check_return(k)

\* HealthChecker.cleanup(): a plain method, which the thread of the event
\* loop runs between two steps of the coroutines; it clears the history.
checker_cleanup ==
    /\ executing = 0
    /\ health_check_history' = <<>>
    /\ UNCHANGED <<dependencies, call_args, call_result, checks, executing,
                   checks_begun>>
    /\ UNCHANGED non_health_vars

HealthNext ==
    \/ \E k \in Checks : check_health(k)
    \/ checker_cleanup

\* The model manager between calls, with the resources of L loaded and the
\* others not downloaded.
ManagerAtRest(L) ==
    /\ path_exists = [m \in ModelIds |-> m \in L]
    /\ is_loaded = [m \in ModelIds |-> m \in L]
    /\ model = [m \in ModelIds |-> IF m \in L THEN "obj" ELSE "None"]
    /\ tokenizer = [m \in ModelIds |-> IF m \in L THEN "obj" ELSE "None"]
    /\ memory_usage = [m \in ModelIds |-> IF m \in L THEN 1 ELSE 0]
    /\ live = [m \in ModelIds |-> IF m \in L THEN 1 ELSE 0]
    /\ calls = [c \in Calls |-> IdleCall]
    /\ loop = 0

\* The sets of loaded resources of the model manager the checker is given:
\* nothing, one resource of the catalog, or the whole catalog.
LoadedSets == {{}, {"codebert-small"}, ModelIds}

\* A health checker constructed with or without each of its dependencies.
HealthSpecInit ==
    /\ catalog = ModelOrder
    /\ MonitorInit
    /\ call_args = NoCall
    /\ call_result = NoResult
    /\ \E d \in [model_manager : BOOLEAN, performance_monitor : BOOLEAN] :
          /\ CheckerWith(d)
          /\ \E L \in IF d.model_manager THEN LoadedSets ELSE {{}} :
                ManagerAtRest(L)

HealthSpec == HealthSpecInit /\ [][HealthNext]_vars

HealthTypeOK ==
    /\ \A k \in Checks :
          /\ checks[k].pc \in {"idle", "system", "model", "performance",
                               "service", "asleep", "overall", "report",
                               "append", "except", "done"}
          /\ checks[k].ordinal \in 0..MaxChecks
    /\ Len(health_check_history) <= health_max_history_size
    /\ executing \in Checks \cup {0}
    /\ checks_begun \in 0..MaxChecks

----------------------------------------------------------------------------
(* Properties of check_health *)

\* C20: a check_health call never ends by raising: it always returns a
\* health result with a status; and when a step of the call has failed (a
\* sub-check, the status calculation, the construction of the report with
\* its recommendations, or the history append), the status of the result
\* has the severity of an error or worse.
C20_CheckHealthAlwaysReturns ==
    [][\A k \in Checks :
         (checks[k].pc # "done" /\ checks'[k].pc = "done") =>
            /\ checks'[k].result.kind \in {"report", "error"}
            /\ checks'[k].result.status \in Statuses
            /\ checks'[k].failed =>
                  Severity(checks'[k].result.status) >= Severity("error")]_vars

\* C20 witness: one call in which a step outside the sub-checks raised has
\* returned the error result, and another call in which a sub-check failed
\* has returned a report.
C20_Witness ==
    \E k1, k2 \in Checks :
        /\ checks[k1].pc = "done" /\ checks[k1].failed
        /\ checks[k1].result = [kind |-> "error", status |-> "error"]
        /\ checks[k2].pc = "done" /\ checks[k2].failed
        /\ checks[k2].result.kind = "report"

\* C21: every health result a check_health call returns is appended to the
\* health history when the call completes: the history after the call is
\* the history before it with the entry of this result at the end, less
\* the oldest entries beyond max_history_size, so the history is bounded,
\* evicts the oldest first and keeps the order of completion, also when
\* calls overlap.
C21_EveryResultAppended ==
    [][\A k \in Checks :
         (checks[k].pc # "done" /\ checks'[k].pc = "done") =>
            /\ health_check_history' =
                  Last(Append(health_check_history,
                              [status |-> checks'[k].result.status,
                               ordinal |-> checks'[k].ordinal]),
                       health_max_history_size)
            /\ Len(health_check_history') <= health_max_history_size]_vars

----------------------------------------------------------------------------
(* Further properties of the resource lifecycle *)

\* C22: load_model succeeds only from Downloaded or Loaded. When the event
\* loop begins a load_model call whose id is not in the catalog or whose
\* artifacts are not downloaded, the call is over in that step with result
\* False, no backend handle is materialized or released and the state of
\* every resource is unchanged; a call that goes on to load begins with the
\* artifacts present, and a resource becomes loaded only while its
\* artifacts are present.
C22_LoadOnlyWhenDownloaded ==
    [][/\ \A c \in Calls :
            (calls[c].op = "load_model" /\ calls[c].pc = "pending"
                /\ calls'[c].pc # "pending") =>
               IF calls[c].id \notin ModelIds \/ ~path_exists[calls[c].id]
               THEN /\ calls'[c].pc = "done"
                    /\ calls'[c].result = "False"
                    /\ UNCHANGED <<res_vars, live>>
               ELSE /\ calls'[c].pc \in {"u_entry", "l_tokenizer"}
                    /\ path_exists[calls[c].id]
       /\ \A m \in ModelIds :
            (~is_loaded[m] /\ is_loaded'[m]) =>
               /\ path_exists[m]
               /\ \E c \in Calls : /\ calls[c].op = "load_model"
                                    /\ calls[c].id = m
                                    /\ calls[c].pc = "l_update"]_vars

\* C22 witness: a load_model of an id outside the catalog and a load_model
\* of a resource that is not downloaded have both returned False, and no
\* resource is loaded or holds a handle.
C22_Witness ==
    \E c1, c2 \in Calls :
        /\ calls[c1].op = "load_model" /\ calls[c1].pc = "done"
        /\ calls[c1].id \notin ModelIds /\ calls[c1].result = "False"
        /\ calls[c2].op = "load_model" /\ calls[c2].pc = "done"
        /\ calls[c2].id \in ModelIds /\ ~path_exists[calls[c2].id]
        /\ calls[c2].result = "False" /\ calls[c2].cause = "not downloaded"
        /\ \A m \in ModelIds : ~is_loaded[m] /\ model[m] = "None"

\* C27: in every state reachable by download_model (forced or not,
\* succeeding or failing), load_model and unload_model, a resource that is
\* marked loaded has its storage location on disk.
C27_LoadedHasArtifacts ==
    \A m \in ModelIds : is_loaded[m] => path_exists[m]

\* C28: when an unload_model call on a loaded resource returns False, the
\* call has left the resource as it was: still marked loaded, with its
\* handle and its tokenizer present, so that get_model keeps returning a
\* ModelInfo with a usable handle.
C28_FailedUnloadChangesNothing ==
    [][\A c \in Calls :
         LET m == calls[c].id IN
         (/\ calls[c].op = "unload_model" /\ m \in ModelIds
          /\ calls[c].pc # "done" /\ calls'[c].pc = "done"
          /\ calls'[c].result = "False"
          /\ is_loaded[m]) =>
            /\ is_loaded'[m]
            /\ model'[m] = "obj"
            /\ tokenizer'[m] = "obj"]_vars

\* C29: when load_model is called on a resource that is loaded and a
\* backend step of the new load fails, the call returns False and the
\* resource is "downloaded" afterwards: not marked loaded, not returned by
\* get_model, with no handle and no tokenizer; the handle it held before
\* the call has been released and no handle of the resource is left.
C29_FailedReloadEndsDownloaded ==
    [][\A c \in Calls :
         (/\ calls[c].op = "load_model" /\ calls[c].start = "loaded"
          /\ Running(c) /\ Finishes(c) /\ calls'[c].cause = "exception") =>
            /\ calls'[c].result = "False"
            /\ ~is_loaded'[calls[c].id]
            /\ StatusOf(calls[c].id)' = "downloaded"
            /\ get_model(calls[c].id)' = "None"
            /\ model'[calls[c].id] = "None"
            /\ tokenizer'[calls[c].id] = "None"
            /\ live'[calls[c].id] = 0]_vars

\* C29 witness: a load_model called on a loaded resource has returned False
\* after the failure of its new load, and the resource is downloaded with
\* no handle.
C29_Witness ==
    \E c \in Calls :
        /\ calls[c].op = "load_model" /\ calls[c].pc = "done"
        /\ calls[c].start = "loaded" /\ calls[c].cause = "exception"
        /\ calls[c].result = "False"
        /\ StatusOf(calls[c].id) = "downloaded"
        /\ model[calls[c].id] = "None" /\ live[calls[c].id] = 0

----------------------------------------------------------------------------
(* Further properties of the telemetry *)

\* C23: get_metrics_history(limit) returns, for every history and every
\* limit that is given (0 and values larger than the history included),
\* exactly the last min(limit, length) stored samples, oldest first; it
\* returns the whole history when no limit is given; and it leaves the
\* history as it was.
C23_LastLimitSamples ==
    [][\A limit \in Limits :
         get_metrics_history(limit) =>
            LET length == Len(metrics_history)
                count == IF limit.n < length THEN limit.n ELSE length
            IN  /\ client'.result =
                      IF limit.given
                      THEN SubSeq(metrics_history, length - count + 1, length)
                      ELSE metrics_history
                /\ metrics_history' = metrics_history]_vars

\* C24: a failure while collecting does not stop the sampling loop.  A
\* collecting step of a loop always ends with a sample in hand, the readings
\* or the all-zero default sample stamped with the current time, and goes
\* on to the append; the append adds that very sample to the history; and
\* a loop ends only by finding the monitoring flag False at its test, so
\* that while monitoring stays enabled a loop goes from any tick, failed or
\* not, to its next sample.
C24_FailedTickKeepsSampling ==
    [][\A t \in Threads :
         /\ (threads[t].pc = "collect" /\ threads'[t].pc # "collect") =>
               /\ threads'[t].pc = "append"
               /\ threads'[t].metrics.timestamp = now'
               /\ \/ threads'[t].metrics.cpu_percent \in CpuPercents
                  \/ threads'[t].metrics = [timestamp |-> now', cpu_percent |-> 0]
         /\ (threads[t].pc = "append" /\ threads'[t].pc # "append") =>
               /\ metrics_history' = Append(metrics_history, threads[t].metrics)
               /\ threads'[t].pc = "trim"
         /\ (threads[t].pc \in {"trim", "slice", "rebind"}
                /\ threads'[t].pc # threads[t].pc) =>
               threads'[t].pc \in {"slice", "rebind", "sleep"}
         /\ (threads[t].pc = "sleep" /\ threads'[t].pc # "sleep") =>
               threads'[t].pc = "while"
         /\ (threads[t].pc = "while" /\ threads'[t].pc # "while") =>
               threads'[t].pc = IF monitoring THEN "collect" ELSE "dead"]_vars

\* C24 witness: monitoring has stayed enabled, only one loop was ever
\* started, and the history holds the default sample of a failed tick
\* followed by the sample of a later tick that did not fail.
C24_Witness ==
    /\ monitoring
    /\ Cardinality({t \in Threads : threads[t].pc # "none"}) = 1
    /\ \E i, j \in 1..Len(metrics_history) :
          /\ i < j
          /\ metrics_history[i].cpu_percent = 0
          /\ metrics_history[j].cpu_percent \in CpuPercents
          /\ metrics_history[j].timestamp > metrics_history[i].timestamp

\* C30: at most one sampling loop is active at any time, whatever the
\* sequence of start_monitoring, stop_monitoring and cleanup calls and the
\* intervals: a start_monitoring issued while a loop is alive starts no
\* second loop, and a loop that a stop_monitoring or cleanup call has told
\* to stop leaves at its next test of the flag and never goes on to
\* another sample.
C30_AtMostOneLoop ==
    [][/\ Cardinality({t \in Threads : Alive(t)'}) <= 1
       /\ \A i \in Intervals :
            (start_monitoring(i) /\ \E t \in Threads : Alive(t)) =>
               \A u \in Threads : Alive(u)' => Alive(u)
       /\ \A t \in Threads :
            (threads[t].stopped /\ threads[t].pc = "while"
               /\ threads'[t].pc # "while") =>
               threads'[t].pc = "dead"]_vars

----------------------------------------------------------------------------
(* Further properties of the health checks *)

\* C25: a run_specific_check call returns a report and does not raise.  For
\* each of the four sub-checks (system, models, performance, service), when
\* the body of the sub-check fails the report has status "error" and an
\* issue that ends with the failure text; when it does not fail the report
\* is the one the body returns; and for an unknown check type the report
\* has status "error" and an issue that names the type.
C25_SubCheckFailureIsReported ==
    (call_args.f = "run_specific_check" /\ call_result.applied) =>
        LET check_type == call_args.a[1]
            outcome == call_args.a[2]
            report == call_result.value
        IN  /\ report.status \in Statuses
            /\ IF check_type \in {"system", "models", "performance", "service"}
               THEN IF outcome.raised
                    THEN /\ report.status = "error"
                         /\ \E i \in 1..Len(report.issues) :
                              \E label \in {"System", "Model", "Performance",
                                             "Service"} :
                                 report.issues[i] =
                                    label \o " health check failed: "
                                          \o outcome.error
                    ELSE report = outcome.report
               ELSE /\ report.status = "error"
                    /\ report.issues = <<"Unknown check type: " \o check_type>>

\* C25 witness: a run_specific_check call of a known sub-check whose body
\* raised has returned an error report.
C25_Witness ==
    /\ call_args.f = "run_specific_check" /\ call_result.applied
    /\ call_args.a[1] = "service" /\ call_args.a[2].raised
    /\ call_result.value.status = "error"

\* C26: in a checker constructed without a model manager or without a
\* performance monitor, no sub-check raises into check_health; the service
\* check, when its own measurements do not fail, reports warning with one
\* issue naming each missing dependency; and the call reaches its return
\* with a report built from all four sub-reports, the service one being a
\* warning or an error.
C26_MissingDependencyIsWarning ==
    [][\A k \in Checks :
         (~dependencies.model_manager \/ ~dependencies.performance_monitor) =>
            /\ (checks[k].pc = "system" /\ checks'[k].pc # "system") =>
                  checks'[k].pc = "model"
            /\ (checks[k].pc = "model" /\ checks'[k].pc # "model") =>
                  checks'[k].pc = "performance"
            /\ (checks[k].pc = "performance"
                   /\ checks'[k].pc # "performance") =>
                  checks'[k].pc = "service"
            /\ (checks[k].pc = "asleep" /\ checks'[k].pc # "asleep") =>
                  LET report == checks'[k].service_health IN
                  /\ checks'[k].pc = "overall"
                  /\ report \notin
                        {failed_check_report("Service", e) : e \in Failures} =>
                        /\ report.status = "warning"
                        /\ ~dependencies.model_manager =>
                              \E i \in 1..Len(report.issues) :
                                 report.issues[i] =
                                    "Model manager not available"
                        /\ ~dependencies.performance_monitor =>
                              \E i \in 1..Len(report.issues) :
                                 report.issues[i] =
                                    "Performance monitor not available"
            /\ (checks[k].pc = "append" /\ checks'[k].pc = "done") =>
                  /\ checks'[k].result.kind = "report"
                  /\ checks[k].system_health.status \in Statuses
                  /\ checks[k].model_health.status \in Statuses
                  /\ checks[k].performance_health.status \in Statuses
                  /\ checks[k].service_health.status \in {"warning", "error"}
                  /\ Len(health_check_history') > 0]_vars

\* C26 witness: a checker constructed with neither dependency has completed
\* a check_health call whose service check reported the warning, and the
\* call has returned its report, which is in the history.
C26_Witness ==
    /\ ~dependencies.model_manager /\ ~dependencies.performance_monitor
    /\ \E k \in Checks :
          /\ checks[k].pc = "done"
          /\ checks[k].result.kind = "report"
          /\ Len(health_check_history) > 0
          /\ health_check_history[Len(health_check_history)].ordinal =
                checks[k].ordinal

====
